---- MODULE Spec2Model ----
(***************************************************************************)
(* REL_DB-based file store (grr_response_server/file_store.py):            *)
(*   - BlobStream: a file-like reader over an ordered list of blob         *)
(*     references, with a cursor and a one-chunk cache;                    *)
(*   - AddFileWithUnknownHash: builds the blob references and the SHA-256  *)
(*     of a file from the ids of blobs already in the blob store.          *)
(* The blob store (data_store.BLOBS) and the relational database           *)
(* (data_store.REL_DB) are outside the file; they are modelled by their    *)
(* interface: a mapping id -> bytes or None, and a mapping                 *)
(* hash id -> list of blob references that a write overwrites.             *)
(***************************************************************************)
EXTENDS Integers, Sequences, FiniteSets, TLC

VARIABLES
  reader,   \* the BlobStream instance: None, or Some(record of its fields)
  meta,     \* REL_DB: hash id -> blob references
  call,     \* the operation called last, with its arguments
  ret,      \* what it returned or raised
  reads,    \* the BLOBS.ReadBlobs calls it issued, in order (sets of blob ids)
  ncalls,   \* number of AddFileWithUnknownHash calls made so far
  paths,    \* REL_DB: the hash ids collected at the client path, by timestamp
  procs     \* the callers that run at the same time: each one's locals

vars == <<reader, meta, call, ret, reads, ncalls, paths, procs>>

----------------------------------------------------------------------------
(* Bounds of the model.                                                    *)

\* Longest blob reference list handed to BlobStream.
MaxRefs == 2
\* Server.max_unbound_read_size of the configuration.
MaxUnboundRead == 3
\* Largest cursor the model follows (the code's cursor is an unbounded int).
MaxCursor == 5
\* Most negative cursor the model follows.
MaxBack == 2
\* Longest blob id sequence handed to AddFileWithUnknownHash.
MaxIds == 3
\* Number of AddFileWithUnknownHash calls in one behaviour.
MaxCalls == 2
\* _BLOBS_READ_BATCH_SIZE, 200 in the source, scaled down so that an input of
\* MaxIds ids is read in more than one batch.
BLOBS_READ_BATCH_SIZE == 2

----------------------------------------------------------------------------
(* Python values.                                                          *)

\* An optional value is a sequence of length at most one.
None == <<>>
Some(x) == <<x>>

Min(a, b) == IF a < b THEN a ELSE b
Max(a, b) == IF a > b THEN a ELSE b

\* s[i:] for i >= 0 (0-based, as in Python).
SliceFrom(s, i) == IF i >= Len(s) THEN <<>> ELSE SubSeq(s, i + 1, Len(s))

\* s[:n], n possibly negative (then the last -n elements are dropped).
SliceTo(s, n) ==
  IF n >= 0 THEN SubSeq(s, 1, Min(n, Len(s)))
  ELSE SubSeq(s, 1, Max(Len(s) + n, 0))

\* os.SEEK_SET, os.SEEK_CUR, os.SEEK_END
SEEK_SET == 0
SEEK_CUR == 1
SEEK_END == 2

----------------------------------------------------------------------------
(* The blob store.                                                         *)

ChunkId == {"a", "b", "e", "m"}

\* The bytes stored under each blob id; None: the blob is not in the store.
\* "e" is a stored blob of length zero.
BlobStore ==
  [k \in ChunkId |->
     CASE k = "a" -> Some(<<1, 2>>)
       [] k = "b" -> Some(<<3>>)
       [] k = "e" -> Some(<<>>)
       [] OTHER   -> None]

\* data_store.BLOBS.ReadBlobs(ids): a dict id -> bytes or None.
ReadBlobs(ids) == [k \in ids |-> BlobStore[k]]

\* bool(chunk) of an optional bytes value: None and b"" are false.
Truthy(chunk) == chunk # None /\ chunk[1] # <<>>

----------------------------------------------------------------------------
(* rdf_objects.BlobReference and the lists of them given to BlobStream.    *)

BlobReference(offset, size, blob_id) ==
  [offset |-> offset, size |-> size, blob_id |-> blob_id]

RECURSIVE SeqsUpTo(_, _)
\* All sequences over S of length 0..n.
SeqsUpTo(S, n) ==
  IF n = 0 THEN {<<>>}
  ELSE LET shorter == SeqsUpTo(S, n - 1)
       IN shorter \cup {Append(s, x) : s \in {t \in shorter : Len(t) = n - 1}, x \in S}

\* The references AddFileWithUnknownHash builds for the stored blobs ids:
\* consecutive, the first at offset 0, each of the size of its blob.
RECURSIVE RefsOf(_)
RefsOf(ids) ==
  IF ids = <<>> THEN <<>>
  ELSE LET before == RefsOf(SubSeq(ids, 1, Len(ids) - 1))
           offset == IF before = <<>> THEN 0
                     ELSE before[Len(before)].offset + before[Len(before)].size
           id     == ids[Len(ids)]
       IN Append(before, BlobReference(offset, Len(BlobStore[id][1]), id))

\* Ways a stored list can be corrupted (one list per kind).
Reversed(refs) == [i \in 1..Len(refs) |-> refs[Len(refs) + 1 - i]]
Shifted(refs, d) ==
  [i \in 1..Len(refs) |->
     IF i = Len(refs) THEN [refs[i] EXCEPT !.offset = Max(@ + d, 0)] ELSE refs[i]]
Dangling(refs) ==
  [i \in 1..Len(refs) |->
     IF i = Len(refs) THEN [refs[i] EXCEPT !.blob_id = "m", !.size = 1] ELSE refs[i]]

\* The lists of the stored blobs' references, as the database holds them.
StoredRefLists ==
  {RefsOf(ids) : ids \in SeqsUpTo({k \in ChunkId : BlobStore[k] # None}, MaxRefs) \ {<<>>}}

\* The blob_refs arguments of BlobStream: the stored lists, and each of them
\* emptied, without its first reference, reversed, with a gap or an overlap
\* before its last reference, and with a last reference to a missing blob.
RefLists ==
  StoredRefLists
    \cup {<<>>}
    \cup {Tail(r) : r \in StoredRefLists}
    \cup {Reversed(r) : r \in StoredRefLists}
    \cup {Shifted(r, 1) : r \in StoredRefLists}
    \cup {Shifted(r, -1) : r \in StoredRefLists}
    \cup {Dangling(r) : r \in StoredRefLists}

----------------------------------------------------------------------------
(* class BlobStream                                                        *)

\* BlobStream.__init__: the fields of the new instance, or IndexError from
\* blob_refs[-1] on an empty list.
BlobStreamInit(blob_refs, hash_id) ==
  IF blob_refs = <<>>
    THEN [err |-> "IndexError", self |-> None]
    ELSE [err |-> "None",
          self |-> Some([blob_refs |-> blob_refs,
                         hash_id |-> hash_id,
                         max_unbound_read |-> MaxUnboundRead,
                         offset |-> 0,
                         length |-> blob_refs[Len(blob_refs)].offset
                                      + blob_refs[Len(blob_refs)].size,
                         current_ref |-> None,
                         current_chunk |-> None])]

\* The loop of _GetChunk: the first reference that covers the cursor.
FoundRef(self) ==
  LET covering == {i \in 1..Len(self.blob_refs) :
                     /\ self.offset >= self.blob_refs[i].offset
                     /\ self.offset < self.blob_refs[i].offset + self.blob_refs[i].size}
  IN IF covering = {} THEN None
     ELSE Some(self.blob_refs[CHOOSE i \in covering : \A j \in covering : i <= j])

\* _GetChunk fetching only while nothing is cached (the test on line 103
\* written as "self._current_ref is None").
GetChunk_FetchOnce(self) ==
  LET found_ref == FoundRef(self)
  IN IF found_ref = None
       THEN [chunk |-> None, ref |-> None, self |-> self, reads |-> <<>>]
     ELSE IF self.current_ref = None
       THEN LET data == ReadBlobs({found_ref[1].blob_id})
                new  == [self EXCEPT !.current_ref = found_ref,
                                     !.current_chunk = data[found_ref[1].blob_id]]
            IN [chunk |-> new.current_chunk, ref |-> new.current_ref,
                self |-> new, reads |-> <<{found_ref[1].blob_id}>>]
     ELSE [chunk |-> self.current_chunk, ref |-> found_ref,
           self |-> self, reads |-> <<>>]

\* _GetChunk without the test on line 103: the blob is read on every call.
GetChunk_AlwaysFetch(self) ==
  LET found_ref == FoundRef(self)
  IN IF found_ref = None
       THEN [chunk |-> None, ref |-> None, self |-> self, reads |-> <<>>]
       ELSE LET data == ReadBlobs({found_ref[1].blob_id})
                new  == [self EXCEPT !.current_ref = found_ref,
                                     !.current_chunk = data[found_ref[1].blob_id]]
            IN [chunk |-> new.current_chunk, ref |-> new.current_ref,
                self |-> new, reads |-> <<{found_ref[1].blob_id}>>]

\* _GetChunk taking the cached chunk whenever it is of the blob wanted (the
\* test on line 103 comparing the blob ids of the two references).
GetChunk_KeyedByBlobId(self) ==
  LET found_ref == FoundRef(self)
  IN IF found_ref = None
       THEN [chunk |-> None, ref |-> None, self |-> self, reads |-> <<>>]
     ELSE IF \/ self.current_ref = None
             \/ self.current_ref[1].blob_id # found_ref[1].blob_id
       THEN LET data == ReadBlobs({found_ref[1].blob_id})
                new  == [self EXCEPT !.current_ref = found_ref,
                                     !.current_chunk = data[found_ref[1].blob_id]]
            IN [chunk |-> new.current_chunk, ref |-> new.current_ref,
                self |-> new, reads |-> <<{found_ref[1].blob_id}>>]
     ELSE [chunk |-> self.current_chunk, ref |-> self.current_ref,
           self |-> self, reads |-> <<>>]

\* BlobStream._GetChunk: the chunk and reference at the cursor, the instance
\* with its cache updated, and the ReadBlobs calls made.
GetChunk(self) ==
  LET found_ref == FoundRef(self)
  IN IF found_ref = None
       THEN [chunk |-> None, ref |-> None, self |-> self, reads |-> <<>>]
     ELSE IF self.current_ref # found_ref
       THEN LET data == ReadBlobs({found_ref[1].blob_id})
                new  == [self EXCEPT !.current_ref = found_ref,
                                     !.current_chunk = data[found_ref[1].blob_id]]
            IN [chunk |-> new.current_chunk, ref |-> new.current_ref,
                self |-> new, reads |-> <<{found_ref[1].blob_id}>>]
     ELSE [chunk |-> self.current_chunk, ref |-> self.current_ref,
           self |-> self, reads |-> <<>>]

\* The while loop of BlobStream.Read; result is the BytesIO written so far.
RECURSIVE ReadLoop(_, _, _, _)
ReadLoop(self, length, result, rd) ==
  IF ~(Len(result) < length)
    THEN [self |-> self, result |-> result, reads |-> rd]
    ELSE LET g == GetChunk(self)
         IN IF ~Truthy(g.chunk)
              THEN [self |-> g.self, result |-> result, reads |-> rd \o g.reads]
              ELSE LET part == SliceFrom(g.chunk[1], g.self.offset - g.ref[1].offset)
                   IN IF part = <<>>
                        THEN [self |-> g.self, result |-> result,
                              reads |-> rd \o g.reads]
                        ELSE ReadLoop(
                               [g.self EXCEPT !.offset = @ + Min(length, Len(part))],
                               length, result \o part, rd \o g.reads)

\* Read rejecting a length equal to the limit (">=" on line 117).
Read_GuardInclusive(self, length) ==
  LET n == IF length = None THEN self.length - self.offset ELSE length[1]
  IN IF n >= self.max_unbound_read
       THEN [err |-> "OversizedRead", value |-> <<>>, self |-> self, reads |-> <<>>]
       ELSE LET r == ReadLoop(self, n, <<>>, <<>>)
            IN [err |-> "None", value |-> SliceTo(r.result, n),
                self |-> r.self, reads |-> r.reads]

\* Read that raises at the end of the stream instead of returning the bytes
\* collected so far.
Read_RaiseAtEnd(self, length) ==
  LET n == IF length = None THEN self.length - self.offset ELSE length[1]
  IN IF n > self.max_unbound_read
       THEN [err |-> "OversizedRead", value |-> <<>>, self |-> self, reads |-> <<>>]
       ELSE LET r == ReadLoop(self, n, <<>>, <<>>)
            IN IF Len(r.result) < n
                 THEN [err |-> "EOFError", value |-> <<>>, self |-> r.self,
                       reads |-> r.reads]
                 ELSE [err |-> "None", value |-> SliceTo(r.result, n),
                       self |-> r.self, reads |-> r.reads]

\* BlobStream.Read(length): length is None or Some(n).
Read(self, length) ==
  LET n == IF length = None THEN self.length - self.offset ELSE length[1]
  IN IF n > self.max_unbound_read
       THEN [err |-> "OversizedRead", value |-> <<>>, self |-> self, reads |-> <<>>]
       ELSE LET r == ReadLoop(self, n, <<>>, <<>>)
            IN [err |-> "None", value |-> SliceTo(r.result, n),
                self |-> r.self, reads |-> r.reads]

\* BlobStream.Tell
Tell(self) == self.offset

\* Seek clamping the cursor to [0, length].
Seek_Clamped(self, offset, whence) ==
  LET clamp(x) == Max(0, Min(x, self.length))
  IN IF whence = SEEK_SET
       THEN [err |-> "None", self |-> [self EXCEPT !.offset = clamp(offset)]]
     ELSE IF whence = SEEK_CUR
       THEN [err |-> "None", self |-> [self EXCEPT !.offset = clamp(@ + offset)]]
     ELSE IF whence = SEEK_END
       THEN [err |-> "None",
             self |-> [self EXCEPT !.offset = clamp(self.length + offset)]]
     ELSE [err |-> "ValueError", self |-> self]

\* BlobStream.Seek
Seek(self, offset, whence) ==
  IF whence = SEEK_SET
    THEN [err |-> "None", self |-> [self EXCEPT !.offset = offset]]
  ELSE IF whence = SEEK_CUR
    THEN [err |-> "None", self |-> [self EXCEPT !.offset = @ + offset]]
  ELSE IF whence = SEEK_END
    THEN [err |-> "None", self |-> [self EXCEPT !.offset = self.length + offset]]
  ELSE [err |-> "ValueError", self |-> self]

----------------------------------------------------------------------------
(* The reader driven by one caller: a BlobStream is built from a list of   *)
(* references, then read and sought in any order.                          *)

\* The hash id given to the BlobStream of the reader specification; the
\* reader only stores it.
SomeHashId == [sha256 |-> 0]

\* The length arguments of Read: omitted, or 0..MaxUnboundRead + 1.
ReadLengths == {None} \cup {Some(n) : n \in 0..(MaxUnboundRead + 1)}

\* The (offset, whence) arguments of Seek; 3 is no os.SEEK_* value.
SeekArgs ==
  ((-MaxBack..MaxCursor) \X {SEEK_SET, SEEK_CUR, SEEK_END}) \cup {<<0, 3>>}

\* What a call record says of the call before it: its operation, and the
\* whence of a Seek.
Tag(c) == IF c.op = "Seek" THEN <<c.op, c.whence>> ELSE <<c.op, -1>>

InitReader ==
  /\ reader = None
  /\ meta = [h \in {} |-> <<>>]
  /\ call = [op |-> "start"]
  /\ ret = [err |-> "None", value |-> <<>>]
  /\ reads = <<>>
  /\ ncalls = 0
  /\ paths = <<>>
  /\ procs = <<>>

\* reader = BlobStream(blob_refs, hash_id)
NewBlobStream ==
  /\ call.op = "start"
  /\ \E blob_refs \in RefLists :
     \E r \in {BlobStreamInit(blob_refs, SomeHashId)} :
          /\ reader' = r.self
          /\ call' = [op |-> "BlobStream", blob_refs |-> blob_refs]
          /\ ret' = [err |-> r.err, value |-> <<>>]
  /\ reads' = <<>>
  /\ UNCHANGED <<meta, ncalls, paths, procs>>

\* reader.Read(length)
DoRead ==
  /\ reader # None
  /\ \E length \in ReadLengths :
     \E r \in {Read(reader[1], length)} :
          /\ reader' = Some(r.self)
          /\ call' = [op |-> "Read", length |-> length,
                      at |-> Tell(reader[1]), prev |-> Tag(call)]
          /\ ret' = [err |-> r.err, value |-> r.value]
          /\ reads' = r.reads
  /\ UNCHANGED <<meta, ncalls, paths, procs>>

\* reader.Seek(offset, whence)
DoSeek ==
  /\ reader # None
  /\ \E a \in SeekArgs :
     \E r \in {Seek(reader[1], a[1], a[2])} :
          /\ r.self.offset \in -MaxBack..MaxCursor
          /\ reader' = Some(r.self)
          /\ call' = [op |-> "Seek", offset |-> a[1], whence |-> a[2]]
          /\ ret' = [err |-> r.err, value |-> <<>>]
  /\ reads' = <<>>
  /\ UNCHANGED <<meta, ncalls, paths, procs>>

NextReader == NewBlobStream \/ DoRead \/ DoSeek

SpecReader == InitReader /\ [][NextReader]_vars

----------------------------------------------------------------------------
(* hashlib.sha256 and the database.                                        *)

\* The byte values of the stored blobs.
Byte == 1..3

\* hashlib.sha256, taken to be free of collisions: the state of the hash
\* object is the number whose digits in base Cardinality(Byte) + 1 are the
\* bytes fed so far, so that two byte strings have the same digest exactly
\* when they are equal.
Sha256New == 0

RECURSIVE Sha256Update(_, _)
Sha256Update(h, data) ==
  IF data = <<>> THEN h
  ELSE Sha256Update(h * (Cardinality(Byte) + 1) + Head(data), Tail(data))

Sha256Digest(h) == h

\* rdf_objects.SHA256HashID.FromBytes
FromBytes(digest) == [sha256 |-> digest]

\* collection.Batch(items, size): consecutive batches of at most size items.
RECURSIVE Batch(_, _)
Batch(items, size) ==
  IF Len(items) <= size THEN (IF items = <<>> THEN <<>> ELSE <<items>>)
  ELSE <<SubSeq(items, 1, size)>> \o Batch(SubSeq(items, size + 1, Len(items)), size)

\* REL_DB.WriteHashBlobReferences(refs_by_hash): the references of each hash
\* id written replace the ones the database held for it.
WriteHashBlobReferences(db, refs_by_hash) ==
  [h \in DOMAIN db \cup DOMAIN refs_by_hash |->
     IF h \in DOMAIN refs_by_hash THEN refs_by_hash[h] ELSE db[h]]

\* REL_DB.ReadHashBlobReferences(hash_ids): a dict hash id -> references or None.
ReadHashBlobReferences(db, hash_ids) ==
  [h \in hash_ids |-> IF h \in DOMAIN db THEN Some(db[h]) ELSE None]

----------------------------------------------------------------------------
(* AddFileWithUnknownHash                                                  *)

\* The locals of AddFileWithUnknownHash before the first batch; reads
\* collects the ReadBlobs calls made.
ComposeStart ==
  [err |-> "None", blob_refs |-> <<>>, offset |-> 0, sha256 |-> Sha256New,
   reads |-> <<>>]

\* The inner loop feeding the hash each blob's length before its bytes, so
\* that the digest depends on where the blobs end.
RECURSIVE AppendBlobs_HashesLengths(_, _, _)
AppendBlobs_HashesLengths(st, blob_ids_batch, data) ==
  IF blob_ids_batch = <<>> THEN st
  ELSE LET blob_id   == Head(blob_ids_batch)
           blob_data == data[blob_id][1]
       IN AppendBlobs_HashesLengths(
            [st EXCEPT
               !.blob_refs = Append(@, BlobReference(st.offset, Len(blob_data), blob_id)),
               !.offset = @ + Len(blob_data),
               !.sha256 = Sha256Update(@, <<Len(blob_data) + 1>> \o blob_data)],
            Tail(blob_ids_batch), data)

\* The inner loop, for blob_id in blob_ids_batch.
RECURSIVE AppendBlobs(_, _, _)
AppendBlobs(st, blob_ids_batch, data) ==
  IF blob_ids_batch = <<>> THEN st
  ELSE LET blob_id   == Head(blob_ids_batch)
           blob_data == data[blob_id][1]
       IN AppendBlobs(
            [st EXCEPT
               !.blob_refs = Append(@, BlobReference(st.offset, Len(blob_data), blob_id)),
               !.offset = @ + Len(blob_data),
               !.sha256 = Sha256Update(@, blob_data)],
            Tail(blob_ids_batch), data)

\* The elements of a set of blob ids as a sequence, in some fixed order.
RECURSIVE SetSeq(_)
SetSeq(S) ==
  IF S = {} THEN <<>>
  ELSE LET x == CHOOSE y \in S : TRUE IN <<x>> \o SetSeq(S \ {x})

\* The batch iterating over unique_ids instead of blob_ids_batch on line 185.
ComposeBatch_Unique(st, blob_ids_batch) ==
  LET unique_ids == {blob_ids_batch[i] : i \in 1..Len(blob_ids_batch)}
      data       == ReadBlobs(unique_ids)
      st1        == [st EXCEPT !.reads = Append(@, unique_ids)]
  IN IF \E k \in DOMAIN data : data[k] = None
       THEN [st1 EXCEPT !.err = "BlobNotFound"]
       ELSE AppendBlobs(st1, SetSeq(unique_ids), data)

\* One iteration of the outer loop: the batch's unique ids are read in one
\* call, a None among the values raises BlobNotFound.
ComposeBatch(st, blob_ids_batch) ==
  LET unique_ids == {blob_ids_batch[i] : i \in 1..Len(blob_ids_batch)}
      data       == ReadBlobs(unique_ids)
      st1        == [st EXCEPT !.reads = Append(@, unique_ids)]
  IN IF \E k \in DOMAIN data : data[k] = None
       THEN [st1 EXCEPT !.err = "BlobNotFound"]
       ELSE AppendBlobs(st1, blob_ids_batch, data)

\* The outer loop: a raise ends it.
RECURSIVE ComposeBatches(_, _)
ComposeBatches(st, batches) ==
  IF batches = <<>> \/ st.err # "None" THEN st
  ELSE ComposeBatches(ComposeBatch(st, Head(batches)), Tail(batches))

\* AddFileWithUnknownHash writing the references collected so far before it
\* raises.
AddFileWithUnknownHash_WritesPartial(db, blob_ids) ==
  LET st == ComposeBatches(ComposeStart, Batch(blob_ids, BLOBS_READ_BATCH_SIZE))
      hash_id == FromBytes(Sha256Digest(st.sha256))
      written == WriteHashBlobReferences(db, [h \in {hash_id} |-> st.blob_refs])
  IN IF st.err # "None"
       THEN [err |-> st.err, value |-> None, db |-> written, reads |-> st.reads]
       ELSE [err |-> "None", value |-> Some(hash_id), db |-> written,
             reads |-> st.reads]

\* AddFileWithUnknownHash extending the references the database holds for
\* the hash instead of replacing them.
AddFileWithUnknownHash_Extends(db, blob_ids) ==
  LET st == ComposeBatches(ComposeStart, Batch(blob_ids, BLOBS_READ_BATCH_SIZE))
      hash_id == FromBytes(Sha256Digest(st.sha256))
      held == IF hash_id \in DOMAIN db THEN db[hash_id] ELSE <<>>
  IN IF st.err # "None"
       THEN [err |-> st.err, value |-> None, db |-> db, reads |-> st.reads]
       ELSE [err |-> "None", value |-> Some(hash_id),
             db |-> WriteHashBlobReferences(db, [h \in {hash_id} |-> held \o st.blob_refs]),
             reads |-> st.reads]

\* AddFileWithUnknownHash(blob_ids) on database db: the exception raised or
\* the hash id returned, the database afterwards and the ReadBlobs calls made.
AddFileWithUnknownHash(db, blob_ids) ==
  LET st == ComposeBatches(ComposeStart, Batch(blob_ids, BLOBS_READ_BATCH_SIZE))
  IN IF st.err # "None"
       THEN [err |-> st.err, value |-> None, db |-> db, reads |-> st.reads]
       ELSE LET hash_id == FromBytes(Sha256Digest(st.sha256))
            IN [err |-> "None", value |-> Some(hash_id),
                db |-> WriteHashBlobReferences(db, [h \in {hash_id} |-> st.blob_refs]),
                reads |-> st.reads]

----------------------------------------------------------------------------
(* The file store: files are added from the ids of stored and missing      *)
(* blobs.                                                                  *)

\* The blob_ids arguments of AddFileWithUnknownHash.
IdLists == SeqsUpTo(ChunkId, MaxIds)

Init ==
  /\ reader = None
  /\ meta = [h \in {} |-> <<>>]
  /\ call = [op |-> "start"]
  /\ ret = [err |-> "None", value |-> <<>>]
  /\ reads = <<>>
  /\ ncalls = 0
  /\ paths = <<>>
  /\ procs = <<>>

\* hash_id = AddFileWithUnknownHash(blob_ids)
Compose ==
  /\ ncalls < MaxCalls
  /\ \E blob_ids \in IdLists :
     \E r \in {AddFileWithUnknownHash(meta, blob_ids)} :
          /\ meta' = r.db
          /\ call' = [op |-> "AddFileWithUnknownHash", blob_ids |-> blob_ids,
                      again |-> /\ call.op = "AddFileWithUnknownHash"
                                /\ call.blob_ids = blob_ids
                                /\ ret.err = "None",
                      alike |-> /\ call.op = "AddFileWithUnknownHash"
                                /\ call.blob_ids # blob_ids
                                /\ ret.err = "None"
                                /\ ret.value = r.value]
          /\ ret' = [err |-> r.err, value |-> r.value]
          /\ reads' = r.reads
  /\ ncalls' = ncalls + 1
  /\ UNCHANGED <<reader, paths, procs>>

Next == Compose

Spec == Init /\ [][Next]_vars

----------------------------------------------------------------------------
(* CheckHashes, OpenFile and the collections of files at client paths.     *)

\* The client paths files are collected at.
ClientPaths == {"/tmp/x", "/tmp/y"}

\* The digest of a content that no blobs of the store make up.
Uncollected == Sha256Digest(Sha256Update(Sha256New, <<2>>))

\* REL_DB.ReadLatestPathInfosWithHashBlobReferences(client_paths,
\* max_timestamp): for each path the collection with the greatest timestamp
\* not above max_timestamp, or None. pathdb[t] is the collection at time t.
ReadLatestPathInfosWithHashBlobReferences(pathdb, client_paths, max_timestamp) ==
  [cp \in client_paths |->
     LET ts == {t \in 1..Len(pathdb) :
                  /\ pathdb[t].client_path = cp
                  /\ (max_timestamp = None \/ t <= max_timestamp[1])}
     IN IF ts = {} THEN None
        ELSE Some(pathdb[CHOOSE t \in ts : \A u \in ts : u <= t])]

\* CheckHashes that takes every hash id the database has references for
\* as present, an empty list of references too.
CheckHashes_Present(db, hash_ids) ==
  [k \in hash_ids |-> ReadHashBlobReferences(db, hash_ids)[k] # None]

\* CheckHashes(hash_ids)
CheckHashes(db, hash_ids) ==
  LET refs == ReadHashBlobReferences(db, hash_ids)
  IN [k \in DOMAIN refs |-> Truthy(refs[k])]

\* OpenFile(client_path, max_timestamp): the exception raised, or the
\* BlobStream returned.
OpenFile(pathdb, db, client_path, max_timestamp) ==
  LET path_info == ReadLatestPathInfosWithHashBlobReferences(
                     pathdb, {client_path}, max_timestamp)[client_path]
  IN IF path_info = None
       THEN [err |-> "FileHasNoContent", value |-> None]
       ELSE LET hash_id == FromBytes(path_info[1].hash_entry.sha256)
                blob_references == ReadHashBlobReferences(db, {hash_id})[hash_id]
            IN IF blob_references = None
                 THEN [err |-> "MissingBlobReferences", value |-> None]
                 ELSE LET stream == BlobStreamInit(blob_references[1], hash_id)
                      IN [err |-> stream.err, value |-> stream.self]

\* The latest collection time; at most MaxTime collections are made.
MaxTime == 2

\* The blob ids of the files that are added and then opened: no blob, one
\* blob, two blobs in both orders, an empty blob first, a missing blob.
StoreIdLists ==
  {<<>>, <<"a">>, <<"a", "b">>, <<"b", "a">>, <<"e", "a">>, <<"m">>}

\* The max_timestamp arguments.
Ceilings == {None} \cup {Some(t) : t \in 0..MaxTime}

\* hash_id = AddFileWithUnknownHash(blob_ids), while no file is open.
StoreAddFile ==
  /\ reader = None
  /\ ncalls < MaxCalls
  /\ \E blob_ids \in StoreIdLists :
     \E r \in {AddFileWithUnknownHash(meta, blob_ids)} :
          /\ meta' = r.db
          /\ call' = [op |-> "AddFileWithUnknownHash", blob_ids |-> blob_ids]
          /\ ret' = [err |-> r.err, value |-> r.value]
          /\ reads' = r.reads
  /\ ncalls' = ncalls + 1
  /\ UNCHANGED <<reader, paths, procs>>

\* A flow records that the file at a client path was collected with a
\* content of the given digest: one held in the database, or one not held.
StoreCollect ==
  /\ reader = None
  /\ Len(paths) < MaxTime
  /\ \E cp \in ClientPaths :
     \E digest \in {h.sha256 : h \in DOMAIN meta} \cup {Uncollected} :
          /\ paths' = Append(paths, [client_path |-> cp,
                                     hash_entry |-> [sha256 |-> digest]])
          /\ call' = [op |-> "collect", client_path |-> cp]
  /\ ret' = [err |-> "None", value |-> <<>>]
  /\ reads' = <<>>
  /\ UNCHANGED <<reader, meta, ncalls, procs>>

\* CheckHashes(hash_ids)
StoreCheckHashes ==
  /\ reader = None
  /\ \E hash_ids \in SUBSET (DOMAIN meta \cup {FromBytes(Uncollected)}) :
          /\ call' = [op |-> "CheckHashes", hash_ids |-> hash_ids]
          /\ ret' = [err |-> "None", value |-> CheckHashes(meta, hash_ids)]
  /\ reads' = <<>>
  /\ UNCHANGED <<reader, meta, ncalls, paths, procs>>

\* reader = OpenFile(client_path, max_timestamp)
StoreOpenFile ==
  /\ reader = None
  /\ \E client_path \in ClientPaths, max_timestamp \in Ceilings :
     \E r \in {OpenFile(paths, meta, client_path, max_timestamp)} :
          /\ reader' = r.value
          /\ call' = [op |-> "OpenFile", client_path |-> client_path,
                      max_timestamp |-> max_timestamp]
          /\ ret' = [err |-> r.err, value |-> <<>>]
  /\ reads' = <<>>
  /\ UNCHANGED <<meta, ncalls, paths, procs>>

\* reader.Read(), once the file is open.
StoreRead ==
  /\ call.op = "OpenFile"
  /\ reader # None
  /\ \E r \in {Read(reader[1], None)} :
          /\ reader' = Some(r.self)
          /\ call' = [op |-> "Read", length |-> None,
                      at |-> Tell(reader[1]), prev |-> Tag(call)]
          /\ ret' = [err |-> r.err, value |-> r.value]
          /\ reads' = r.reads
  /\ UNCHANGED <<meta, ncalls, paths, procs>>

NextStore ==
  \/ StoreAddFile
  \/ StoreCollect
  \/ StoreCheckHashes
  \/ StoreOpenFile
  \/ StoreRead

SpecStore == Init /\ [][NextStore]_vars

----------------------------------------------------------------------------
(* Read taken one turn of its loop at a time, by one reader or by several  *)
(* readers of the same file whose callers run at the same time.            *)

\* The lines of Read before the loop: the length to read, or the error.
ReadBegin(self, length) ==
  LET n == IF length = None THEN self.length - self.offset ELSE length[1]
  IN IF n > self.max_unbound_read
       THEN [err |-> "OversizedRead", length |-> n]
       ELSE [err |-> "None", length |-> n]

\* A turn of the loop that goes on when the part is empty (no "if not part:
\* break").
ReadTurn_NoBreakOnEmptyPart(self, length, result) ==
  IF ~(Len(result) < length)
    THEN [done |-> TRUE, self |-> self, result |-> result, reads |-> <<>>]
    ELSE LET g == GetChunk(self)
         IN IF ~Truthy(g.chunk)
              THEN [done |-> TRUE, self |-> g.self, result |-> result,
                    reads |-> g.reads]
              ELSE LET part == SliceFrom(g.chunk[1], g.self.offset - g.ref[1].offset)
                   IN [done |-> FALSE,
                       self |-> [g.self EXCEPT !.offset = @ + Min(length, Len(part))],
                       result |-> result \o part, reads |-> g.reads]

\* One turn of the while loop of Read: the test, and the body when the test
\* holds. done says that the loop is left, by the test or by a break.
ReadTurn(self, length, result) ==
  IF ~(Len(result) < length)
    THEN [done |-> TRUE, self |-> self, result |-> result, reads |-> <<>>]
    ELSE LET g == GetChunk(self)
         IN IF ~Truthy(g.chunk)
              THEN [done |-> TRUE, self |-> g.self, result |-> result,
                    reads |-> g.reads]
              ELSE LET part == SliceFrom(g.chunk[1], g.self.offset - g.ref[1].offset)
                   IN IF part = <<>>
                        THEN [done |-> TRUE, self |-> g.self, result |-> result,
                              reads |-> g.reads]
                        ELSE [done |-> FALSE,
                              self |-> [g.self EXCEPT
                                          !.offset = @ + Min(length, Len(part))],
                              result |-> result \o part, reads |-> g.reads]

\* A reader between two calls.
Idle(self) ==
  [self |-> self, pc |-> "idle", length |-> 0, result |-> <<>>, iters |-> 0,
   start |-> None]

\* The attributes of every reader are written when one reader writes its
\* own (class attributes).
Store_Shared(ps, i, p) ==
  [j \in DOMAIN ps |->
     IF j = i THEN p
     ELSE [ps[j] EXCEPT !.self.offset = p.self.offset,
                        !.self.current_ref = p.self.current_ref,
                        !.self.current_chunk = p.self.current_chunk]]

\* Reader i writes its attributes: self._offset, self._current_ref and
\* self._current_chunk are the instance's.
Store(ps, i, p) == [ps EXCEPT ![i] = p]

\* readers = BlobStream(blob_refs, hash_id), once for each of the callers.
NewReaders(callers, lists) ==
  /\ call.op = "start"
  /\ \E blob_refs \in lists :
     \E r \in {BlobStreamInit(blob_refs, SomeHashId)} :
          /\ r.err = "None"
          /\ procs' = [i \in callers |-> Idle(r.self[1])]
          /\ call' = [op |-> "BlobStream", who |-> 0]
  /\ ret' = [err |-> "None", value |-> <<>>]
  /\ reads' = <<>>
  /\ UNCHANGED <<reader, meta, ncalls, paths>>

\* Reader i: Seek(offset, os.SEEK_SET) between two calls of Read.
ReaderSeek(i, offsets) ==
  /\ call.op # "start"
  /\ procs[i].pc = "idle"
  /\ \E offset \in offsets :
     \E r \in {Seek(procs[i].self, offset, SEEK_SET)} :
          /\ procs' = Store(procs, i, Idle(r.self))
          /\ call' = [op |-> "Seek", who |-> i]
          /\ ret' = [err |-> r.err, value |-> <<>>]
  /\ reads' = <<>>
  /\ UNCHANGED <<reader, meta, ncalls, paths>>

\* Reader i: Read(length) is called and reaches its loop, or raises.
ReaderCallRead(i) ==
  /\ call.op # "start"
  /\ procs[i].pc = "idle"
  /\ \E length \in ReadLengths :
     \E b \in {ReadBegin(procs[i].self, length)} :
          /\ procs' = IF b.err # "None" THEN procs
                      ELSE Store(procs, i,
                                 [self |-> procs[i].self, pc |-> "loop",
                                  length |-> b.length, result |-> <<>>,
                                  iters |-> 0, start |-> Some(procs[i].self)])
          /\ call' = [op |-> "Read", who |-> i]
          /\ ret' = [err |-> b.err, value |-> <<>>]
  /\ reads' = <<>>
  /\ UNCHANGED <<reader, meta, ncalls, paths>>

\* Reader i is past the first turn of its loop and the step before this one
\* was a turn of the loop of another reader.
Mixed(i) ==
  /\ procs[i].iters >= 1
  /\ call.op = "turn"
  /\ call.who # i

\* Reader i: one turn of the loop of its Read; the Read returns when the
\* loop is left.
ReaderTurn(i) ==
  /\ call.op # "start"
  /\ procs[i].pc = "loop"
  /\ \E t \in {ReadTurn(procs[i].self, procs[i].length, procs[i].result)} :
          /\ procs' = Store(procs, i,
                            IF t.done THEN Idle(t.self)
                            ELSE [procs[i] EXCEPT !.self = t.self,
                                                  !.result = t.result,
                                                  !.iters = @ + 1])
          /\ call' = IF t.done
                       THEN [op |-> "return", who |-> i,
                             length |-> procs[i].length,
                             iters |-> procs[i].iters
                                         + (IF Len(procs[i].result) < procs[i].length
                                              THEN 1 ELSE 0),
                             mixed |-> Mixed(i)]
                       ELSE [op |-> "turn", who |-> i, mixed |-> Mixed(i)]
          /\ ret' = IF t.done
                      THEN [err |-> "None",
                            value |-> SliceTo(t.result, procs[i].length)]
                      ELSE [err |-> "None", value |-> <<>>]
          /\ reads' = t.reads
  /\ UNCHANGED <<reader, meta, ncalls, paths>>

\* A stored list whose last reference is one byte longer than its blob.
Oversized(refs) ==
  [i \in 1..Len(refs) |->
     IF i = Len(refs) THEN [refs[i] EXCEPT !.size = @ + 1] ELSE refs[i]]

\* The blob_refs arguments of the readers whose loop is followed.
LoopRefLists == RefLists \cup {Oversized(r) : r \in StoredRefLists}

\* One reader, over any list a BlobStream is made of, at any cursor.
NextLoop ==
  \/ NewReaders({1}, LoopRefLists)
  \/ ReaderSeek(1, -MaxBack..MaxCursor)
  \/ ReaderCallRead(1)
  \/ ReaderTurn(1)

\* The caller of Read runs on until Read returns.
SpecLoop == Init /\ [][NextLoop]_vars /\ WF_vars(ReaderTurn(1))

\* The references of the file that two readers are opened on.
TwoRefLists == StoredRefLists

\* Two readers of one file, each with its own caller; a step is a call up to
\* its first turn, a turn of the loop of Read, or a Seek to the start.
NextTwo ==
  \/ NewReaders({1, 2}, TwoRefLists)
  \/ \E i \in {1, 2} : ReaderSeek(i, {0})
  \/ \E i \in {1, 2} : ReaderCallRead(i)
  \/ \E i \in {1, 2} : ReaderTurn(i)

SpecTwo == Init /\ [][NextTwo]_vars

----------------------------------------------------------------------------
(* AddFileWithUnknownHash called by several callers at the same time; a    *)
(* step of a caller is one batch (one ReadBlobs call) or the final write.  *)

\* The end of AddFileWithUnknownHash extending the references the database
\* holds for the hash id instead of replacing them.
ComposeFinish_Extends(db, st) ==
  LET hash_id == FromBytes(Sha256Digest(st.sha256))
      held    == IF hash_id \in DOMAIN db THEN db[hash_id] ELSE <<>>
  IN [value |-> Some(hash_id),
      db |-> WriteHashBlobReferences(db, [h \in {hash_id} |-> held \o st.blob_refs])]

\* The end of AddFileWithUnknownHash, after the last batch: the hash id is
\* made, the references are written in one call, the hash id is returned.
ComposeFinish(db, st) ==
  LET hash_id == FromBytes(Sha256Digest(st.sha256))
  IN [value |-> Some(hash_id),
      db |-> WriteHashBlobReferences(db, [h \in {hash_id} |-> st.blob_refs])]

\* The blob_ids arguments of the callers that run at the same time.
ConcIdLists == SeqsUpTo({"a", "e", "m"}, MaxIds)

\* Where a caller is with the given batches still to do.
PcOf(batches) == IF batches = <<>> THEN "write" ELSE "batch"

\* AddFileWithUnknownHash(blob_ids) is called by each of the callers.
NewCalls(callers) ==
  /\ call.op = "start"
  /\ \E ids \in [callers -> ConcIdLists] :
       procs' = [i \in callers |->
                   LET batches == Batch(ids[i], BLOBS_READ_BATCH_SIZE)
                   IN [pc |-> PcOf(batches), blob_ids |-> ids[i],
                       batches |-> batches, st |-> ComposeStart,
                       value |-> None]]
  /\ call' = [op |-> "AddFileWithUnknownHash", who |-> 0, mixed |-> FALSE]
  /\ ret' = [err |-> "None", value |-> <<>>]
  /\ reads' = <<>>
  /\ UNCHANGED <<reader, meta, ncalls, paths>>

\* Caller i reads and appends its next batch, or raises BlobNotFound.
CallerBatch(i) ==
  /\ call.op # "start"
  /\ procs[i].pc = "batch"
  /\ \E st \in {ComposeBatch(procs[i].st, Head(procs[i].batches))} :
          /\ procs' = [procs EXCEPT
                         ![i].st = st,
                         ![i].batches = Tail(@),
                         ![i].pc = IF st.err # "None" THEN "raised"
                                   ELSE PcOf(Tail(procs[i].batches))]
          /\ ret' = [err |-> st.err, value |-> <<>>]
          /\ reads' = <<st.reads[Len(st.reads)]>>
  /\ call' = [op |-> "batch", who |-> i, mixed |-> FALSE]
  /\ UNCHANGED <<reader, meta, ncalls, paths>>

\* Caller i writes its references and returns its hash id.
CallerWrite(i) ==
  /\ call.op # "start"
  /\ procs[i].pc = "write"
  /\ \E f \in {ComposeFinish(meta, procs[i].st)} :
          /\ meta' = f.db
          /\ procs' = [procs EXCEPT ![i].pc = "returned", ![i].value = f.value]
          /\ ret' = [err |-> "None", value |-> f.value]
  /\ call' = [op |-> "write", who |-> i,
              mixed |-> /\ call.op \in {"batch", "write"}
                        /\ call.who # i
                        /\ procs[i].blob_ids # <<>>]
  /\ reads' = <<>>
  /\ UNCHANGED <<reader, ncalls, paths>>

NextConc ==
  \/ NewCalls({1, 2})
  \/ \E i \in {1, 2} : CallerBatch(i)
  \/ \E i \in {1, 2} : CallerWrite(i)

SpecConc == Init /\ [][NextConc]_vars

----------------------------------------------------------------------------
(* What the properties speak of: the reference lists a reader is meant     *)
(* for, and the bytes of the file they describe.                           *)

\* Starts at offset 0 and each reference ends where the next begins (with
\* sizes >= 0, hence sorted by offset).
ValidRefs(refs) ==
  /\ refs # <<>>
  /\ refs[1].offset = 0
  /\ \A i \in 1..(Len(refs) - 1) : refs[i].offset + refs[i].size = refs[i + 1].offset

\* Every reference names a stored blob of the reference's size.
StoredRefs(refs) ==
  \A i \in 1..Len(refs) :
    /\ BlobStore[refs[i].blob_id] # None
    /\ Len(BlobStore[refs[i].blob_id][1]) = refs[i].size

\* The bytes of the stored blobs ids, concatenated in the order of ids.
RECURSIVE Concat(_)
Concat(ids) ==
  IF ids = <<>> THEN <<>> ELSE BlobStore[Head(ids)][1] \o Concat(Tail(ids))

\* The bytes of the file that a list of references describes.
Content(refs) == Concat([i \in 1..Len(refs) |-> refs[i].blob_id])

\* The bytes at positions [from, to) of s (0-based).
Bytes(s, from, to) == SubSeq(s, from + 1, Min(to, Len(s)))

\* The reader holds a valid list of references to stored blobs.
GoodReader ==
  /\ reader # None
  /\ ValidRefs(reader[1].blob_refs)
  /\ StoredRefs(reader[1].blob_refs)

\* The size of the file of the reader.
N == Len(Content(reader[1].blob_refs))

\* The effective length of the Read of call record c issued in this state.
Effective(c) ==
  IF c.length = None THEN reader[1].length - reader[1].offset ELSE c.length[1]

----------------------------------------------------------------------------
(* Properties of the reader (specification SpecReader).                    *)

\* C1: on a reader over a valid list of total size N <= max_unbound_read,
\* Seek(k, SEEK_SET) followed by Read(N - k) returns the bytes [k, N) of the
\* concatenation of the chunks, for every 0 <= k <= N.
C1_SeekThenReadToEnd ==
  [][(/\ GoodReader
      /\ N <= MaxUnboundRead
      /\ call.op = "Seek" /\ call.whence = SEEK_SET /\ ret.err = "None"
      /\ call.offset \in 0..N
      /\ call'.op = "Read"
      /\ call'.length = Some(N - call.offset))
     => (/\ ret'.err = "None"
         /\ ret'.value = Bytes(Content(reader[1].blob_refs), call.offset, N))]_vars

\* A Read to the end right after a Seek from the start into the middle of
\* the first chunk of a file of two chunks.
C1_Witness ==
  /\ GoodReader
  /\ call.op = "Read"
  /\ call.prev = <<"Seek", SEEK_SET>>
  /\ call.at > 0
  /\ call.length = Some(N - call.at)
  /\ Len(reads) = 2
  /\ Len(ret.value) = N - call.at

\* C2: a successful Read(n), n >= 0, at cursor c in [0, N] of a valid list
\* returns the bytes [c, min(c + n, N)) and leaves the cursor at c plus the
\* number of bytes returned.
C2_ReadAdvancesByBytesReturned ==
  (/\ GoodReader
   /\ call.op = "Read" /\ call.length # None /\ ret.err = "None"
   /\ call.at \in 0..N)
  => (/\ ret.value = Bytes(Content(reader[1].blob_refs), call.at,
                           call.at + call.length[1])
      /\ Tell(reader[1]) = call.at + Len(ret.value))

\* C3: Read raises OversizedRead exactly when its effective length exceeds
\* max_unbound_read; a Read that raises fetches nothing and leaves the
\* cursor and the cached chunk as they were.
C3_OversizedReadGuard ==
  [][(reader # None /\ call'.op = "Read")
     => (/\ (ret'.err = "OversizedRead") <=> (Effective(call') > MaxUnboundRead)
         /\ (ret'.err = "OversizedRead") => (reads' = <<>> /\ reader' = reader))]_vars

\* A Read of max_unbound_read + 1 bytes refused while a chunk is cached.
C3_Witness ==
  /\ reader # None
  /\ call.op = "Read"
  /\ call.length = Some(MaxUnboundRead + 1)
  /\ ret.err = "OversizedRead"
  /\ reader[1].current_ref # None
  /\ reader[1].offset > 0

\* C4: at cursor 0 of a file of size N, Read(n) with N < n <= max_unbound_read
\* returns the N bytes of the file and raises nothing, and leaves the cursor
\* at N; a Read after it (one that the size guard of C3 lets through)
\* returns no bytes.
C4_ReadPastEndIsTruncated ==
  [][/\ (/\ GoodReader
         /\ Tell(reader[1]) = 0
         /\ call'.op = "Read" /\ call'.length # None
         /\ call'.length[1] > N /\ call'.length[1] <= MaxUnboundRead)
        => (/\ ret'.err = "None"
            /\ ret'.value = Content(reader[1].blob_refs)
            /\ Tell(reader'[1]) = N)
     /\ (/\ GoodReader
         /\ call.op = "Read" /\ call.length # None /\ call.at = 0
         /\ call.length[1] > N /\ call.length[1] <= MaxUnboundRead
         /\ call'.op = "Read"
         /\ Effective(call') <= MaxUnboundRead)
        => (ret'.err = "None" /\ ret'.value = <<>>)]_vars

\* The Read that follows a Read past the end of a file of two chunks.
C4_Witness ==
  /\ GoodReader
  /\ Len(reader[1].blob_refs) = 2
  /\ N = 2
  /\ call.op = "Read"
  /\ call.prev = <<"Read", -1>>
  /\ call.at = N
  /\ ret.err = "None"
  /\ ret.value = <<>>

\* C5 as stated: Seek sets the cursor to offset, cursor + offset or
\* length + offset, unclamped; once a Seek has left the cursor at or beyond
\* the size of the file, every Read, with or without a length, returns no
\* bytes, raises nothing and leaves the cursor where it is.
C5_EveryReadBeyondEndIsEmpty ==
  [][/\ (reader # None /\ call'.op = "Seek" /\ call'.whence \in {SEEK_SET, SEEK_CUR, SEEK_END})
        => (/\ ret'.err = "None"
            /\ Tell(reader'[1]) =
                 CASE call'.whence = SEEK_SET -> call'.offset
                   [] call'.whence = SEEK_CUR -> Tell(reader[1]) + call'.offset
                   [] call'.whence = SEEK_END -> reader[1].length + call'.offset)
     /\ (/\ GoodReader
         /\ call.op \in {"Seek", "Read"}
         /\ Tell(reader[1]) >= N
         /\ call'.op = "Read")
        => (/\ ret'.err = "None"
            /\ ret'.value = <<>>
            /\ Tell(reader'[1]) = Tell(reader[1]))]_vars

\* C5 amended: the same, for every Read whose effective length is at most
\* max_unbound_read (a longer one raises OversizedRead, as C3 says).
C5_ReadBeyondEndIsEmpty ==
  [][/\ (reader # None /\ call'.op = "Seek" /\ call'.whence \in {SEEK_SET, SEEK_CUR, SEEK_END})
        => (/\ ret'.err = "None"
            /\ Tell(reader'[1]) =
                 CASE call'.whence = SEEK_SET -> call'.offset
                   [] call'.whence = SEEK_CUR -> Tell(reader[1]) + call'.offset
                   [] call'.whence = SEEK_END -> reader[1].length + call'.offset)
     /\ (/\ GoodReader
         /\ call.op \in {"Seek", "Read"}
         /\ Tell(reader[1]) >= N
         /\ call'.op = "Read"
         /\ Effective(call') <= MaxUnboundRead)
        => (/\ ret'.err = "None"
            /\ ret'.value = <<>>
            /\ Tell(reader'[1]) = Tell(reader[1]))]_vars

\* A Read without a length right after a Seek from the end to beyond it.
C5_Witness ==
  /\ GoodReader
  /\ N > 0
  /\ call.op = "Read"
  /\ call.prev = <<"Seek", SEEK_END>>
  /\ call.length = None
  /\ call.at > N
  /\ ret.err = "None"
  /\ ret.value = <<>>
  /\ Tell(reader[1]) = call.at

\* C6: the cursor of a reader is never negative (a Seek to before position 0
\* is refused).
C6_CursorNeverNegative ==
  reader # None => Tell(reader[1]) >= 0

\* C7: the constructor refuses a list that is empty, does not start at
\* offset 0 or has a gap or an overlap between two references (here: with
\* whichever exception), so that every reader holds a valid list.
C7_InvalidListsAreRefused ==
  /\ reader # None => ValidRefs(reader[1].blob_refs)
  /\ (call.op = "BlobStream" /\ ~ValidRefs(call.blob_refs)) => ret.err # "None"

----------------------------------------------------------------------------
(* Properties of AddFileWithUnknownHash (specification Spec).              *)

\* The references of a file made of the stored blobs ids: one per position,
\* at the sum of the sizes before it.
RECURSIVE SumSizes(_, _)
SumSizes(ids, n) ==
  IF n = 0 THEN 0 ELSE SumSizes(ids, n - 1) + Len(BlobStore[ids[n]][1])

ExpectedRefs(ids) ==
  [i \in 1..Len(ids) |->
     [offset |-> SumSizes(ids, i - 1),
      size |-> Len(BlobStore[ids[i]][1]),
      blob_id |-> ids[i]]]

\* Some id of the sequence is not in the blob store.
HasMissing(ids) == \E i \in 1..Len(ids) : BlobStore[ids[i]] = None

\* C8: a successful AddFileWithUnknownHash(blob_ids) returns the digest of
\* the blobs' bytes concatenated in the order of blob_ids, duplicates kept,
\* and the database then holds for it one reference per position of
\* blob_ids, in that order, each of its blob's size and at the sum of the
\* sizes before it.
C8_ComposeHashAndRefs ==
  (call.op = "AddFileWithUnknownHash" /\ ret.err = "None")
  => (/\ ret.value =
           Some(FromBytes(Sha256Digest(Sha256Update(Sha256New, Concat(call.blob_ids)))))
      /\ ret.value[1] \in DOMAIN meta
      /\ meta[ret.value[1]] = ExpectedRefs(call.blob_ids))

\* A file of more ids than one batch holds, the first batch holding the same
\* id twice and the next batch another blob.
C8_Witness ==
  /\ call.op = "AddFileWithUnknownHash"
  /\ ret.err = "None"
  /\ Len(reads) = 2
  /\ Cardinality(reads[1]) < BLOBS_READ_BATCH_SIZE
  /\ reads[2] # reads[1]
  /\ Len(Concat(call.blob_ids)) > Len(call.blob_ids)

\* C9: when an id of blob_ids, in whichever batch, is not in the blob store,
\* AddFileWithUnknownHash raises BlobNotFound and the database is left as it
\* was.
C9_MissingBlobWritesNothing ==
  [][(call'.op = "AddFileWithUnknownHash" /\ HasMissing(call'.blob_ids))
     => (ret'.err = "BlobNotFound" /\ meta' = meta)]_vars

\* A call that fails on its second batch, after a first batch of stored
\* blobs, on a database that holds a file.
C9_Witness ==
  /\ call.op = "AddFileWithUnknownHash"
  /\ ret.err = "BlobNotFound"
  /\ Len(reads) = 2
  /\ ~HasMissing(SubSeq(call.blob_ids, 1, BLOBS_READ_BATCH_SIZE))
  /\ Concat(SubSeq(call.blob_ids, 1, BLOBS_READ_BATCH_SIZE)) # <<>>
  /\ DOMAIN meta # {}

\* C10: AddFileWithUnknownHash called again with the blob ids of the
\* successful call before it returns the same hash id and leaves the
\* database as the first call left it.
C10_ComposeTwice ==
  [][(/\ call.op = "AddFileWithUnknownHash" /\ ret.err = "None"
      /\ call'.op = "AddFileWithUnknownHash"
      /\ call'.blob_ids = call.blob_ids
      /\ ncalls' = ncalls + 1)
     => (ret'.err = "None" /\ ret'.value = ret.value /\ meta' = meta)]_vars

\* The second of two calls with the same ids, of a file of several blobs.
C10_Witness ==
  /\ call.op = "AddFileWithUnknownHash"
  /\ call.again
  /\ ret.err = "None"
  /\ Len(call.blob_ids) > BLOBS_READ_BATCH_SIZE
  /\ ncalls = 2

\* C11: two successive successful calls return the same hash id exactly
\* when the bytes of their blobs, concatenated, are equal: the hash id does
\* not depend on the blob ids or on where the blobs end.
C11_SameHashIffSameBytes ==
  [][(/\ call.op = "AddFileWithUnknownHash" /\ ret.err = "None"
      /\ call'.op = "AddFileWithUnknownHash" /\ ret'.err = "None"
      /\ ncalls' = ncalls + 1)
     => ((ret'.value = ret.value)
           <=> (Concat(call'.blob_ids) = Concat(call.blob_ids)))]_vars

\* A call that returns the hash id of the call before it, for other blob
\* ids and bytes that are not empty.
C11_Witness ==
  /\ call.op = "AddFileWithUnknownHash"
  /\ ret.err = "None"
  /\ call.alike
  /\ Concat(call.blob_ids) # <<>>

----------------------------------------------------------------------------
(* Properties of CheckHashes and OpenFile (specification SpecStore).       *)

\* The hash id of a file of the given bytes.
HashOf(bytes) == FromBytes(Sha256Digest(Sha256Update(Sha256New, bytes)))

\* The times at which the file at client path cp was collected, none of
\* them above the ceiling.
CollectedAt(cp, ceiling) ==
  {t \in 1..Len(paths) :
     /\ paths[t].client_path = cp
     /\ (ceiling = None \/ t <= ceiling[1])}

\* The hash id of the latest of these collections.
LatestHash(cp, ceiling) ==
  LET ts == CollectedAt(cp, ceiling)
  IN FromBytes(paths[CHOOSE t \in ts : \A u \in ts : u <= t].hash_entry.sha256)

\* C12: once AddFileWithUnknownHash(blob_ids) has returned h and the
\* latest collection at a path has h, OpenFile of the path returns a reader
\* of hash id h and of the length of the blobs' bytes, and a Read() without
\* length that follows returns these bytes, concatenated in the order of
\* blob_ids, when they are no more than max_unbound_read.
C12_OpenReadsWhatWasAdded ==
  [][\A blob_ids \in {ids \in StoreIdLists : ~HasMissing(ids)} :
       /\ (/\ call'.op = "OpenFile"
           /\ CollectedAt(call'.client_path, call'.max_timestamp) # {}
           /\ LatestHash(call'.client_path, call'.max_timestamp) \in DOMAIN meta
           /\ LatestHash(call'.client_path, call'.max_timestamp)
                = HashOf(Concat(blob_ids)))
          => /\ ret'.err = "None"
             /\ reader' # None
             /\ reader'[1].hash_id = HashOf(Concat(blob_ids))
             /\ reader'[1].length = Len(Concat(blob_ids))
       /\ (/\ call.op = "OpenFile"
           /\ reader # None
           /\ reader[1].hash_id = HashOf(Concat(blob_ids))
           /\ Len(Concat(blob_ids)) <= MaxUnboundRead
           /\ call'.op = "Read"
           /\ call'.length = None)
          => /\ ret'.err = "None"
             /\ ret'.value = Concat(blob_ids)]_vars

\* C13: OpenFile raises FileHasNoContent exactly when the path has no
\* collection up to the ceiling, MissingBlobReferences exactly when it has
\* one and the database holds no references for its hash id, and in every
\* other case returns a reader over the references held; it raises nothing
\* else.
C13_OpenFileOutcomes ==
  [][call'.op = "OpenFile" =>
       LET bound == CollectedAt(call'.client_path, call'.max_timestamp) # {}
           h     == LatestHash(call'.client_path, call'.max_timestamp)
       IN /\ ret'.err \in {"None", "FileHasNoContent", "MissingBlobReferences"}
          /\ (ret'.err = "FileHasNoContent") <=> ~bound
          /\ (ret'.err = "MissingBlobReferences") <=> (bound /\ h \notin DOMAIN meta)
          /\ (bound /\ h \in DOMAIN meta)
               => /\ ret'.err = "None"
                  /\ reader' # None
                  /\ reader'[1].blob_refs = meta[h]
                  /\ reader'[1].hash_id = h]_vars

\* C14: CheckHashes(hash_ids) returns, for each of hash_ids and for nothing
\* else, whether the database holds a list of references for it that is not
\* empty; it changes neither the database nor the collections and reads no
\* blob.
C14_CheckHashes ==
  [][call'.op = "CheckHashes" =>
       /\ DOMAIN ret'.value = call'.hash_ids
       /\ \A h \in call'.hash_ids :
            ret'.value[h] <=> (h \in DOMAIN meta /\ meta[h] # <<>>)
       /\ ret'.err = "None"
       /\ meta' = meta
       /\ paths' = paths
       /\ reads' = <<>>]_vars

\* CheckHashes has answered for a hash id with references, for one with an
\* empty list of references and for one the database does not hold.
C14_Witness ==
  /\ call.op = "CheckHashes"
  /\ \E h \in call.hash_ids : ret.value[h] /\ h \in DOMAIN meta
  /\ \E h \in call.hash_ids : ~ret.value[h] /\ h \in DOMAIN meta /\ meta[h] = <<>>
  /\ \E h \in call.hash_ids : ~ret.value[h] /\ h \notin DOMAIN meta

\* C18: after any calls of AddFileWithUnknownHash, failed ones and ones
\* with no blob ids or with empty blobs among them, every list of
\* references the database holds is not empty, starts at offset 0 and is
\* contiguous, so that a BlobStream can be made of it; the bytes it
\* describes have the hash id it is held under; and CheckHashes reports
\* true for every hash id returned.
C18_StoredListsAreReadable ==
  \A h \in DOMAIN meta :
    /\ ValidRefs(meta[h])
    /\ StoredRefs(meta[h])
    /\ BlobStreamInit(meta[h], h).err = "None"
    /\ HashOf(Content(meta[h])) = h
    /\ CheckHashes(meta, {h})[h]

----------------------------------------------------------------------------
(* Properties of the cache of the reader (specification SpecReader).       *)

\* The references of positive size that meet the cursors [from, to).
RefsMet(refs, from, to) ==
  {i \in 1..Len(refs) :
     /\ refs[i].size > 0
     /\ refs[i].offset < to
     /\ refs[i].offset + refs[i].size > from}

\* C15: a Read reads a blob only when the reference found for the cursor
\* differs from the cached one; reads that stay within one reference read
\* its blob at most once between them: a Read of bytes that all lie in the
\* reference found makes at most one ReadBlobs call, none when the
\* reference is the cached one, and leaves it cached when it returned bytes.
\* Over a valid list a Read makes no more ReadBlobs calls than there are
\* references under the cursors it passes, the cached one not counted.
C15_FetchOnlyOnOtherReference ==
  [][(reader # None /\ call'.op = "Read" /\ ret'.err = "None") =>
       LET self  == reader[1]
           found == FoundRef(self)
           stays == /\ found # None
                    /\ self.offset + Effective(call')
                         <= found[1].offset + found[1].size
           hit   == found # None /\ found = self.current_ref
           met   == RefsMet(self.blob_refs, self.offset, reader'[1].offset)
       IN /\ found = None => reads' = <<>>
          /\ (found # None /\ ~hit /\ reads' # <<>>)
               => reads'[1] = {found[1].blob_id}
          /\ (hit /\ stays) => reads' = <<>>
          /\ stays => Len(reads') <= 1
          /\ (stays /\ ret'.value # <<>>) => reader'[1].current_ref = found
          /\ GoodReader
               => Len(reads') <= Cardinality(met)
                                   - (IF hit /\ Effective(call') > 0 THEN 1 ELSE 0)]_vars

\* A Read that follows a Read within the same reference, returns bytes and
\* reads no blob.
C15_Witness ==
  /\ GoodReader
  /\ call.op = "Read"
  /\ call.prev[1] = "Read"
  /\ ret.value # <<>>
  /\ reads = <<>>
  /\ reader[1].current_ref # None
  /\ call.at > reader[1].current_ref[1].offset
  /\ call.length # None
  /\ call.at + call.length[1] <= reader[1].current_ref[1].offset
                                   + reader[1].current_ref[1].size

\* The loop of Read of a reader without cache, which reads the blob of the
\* reference found at every turn: the cursor and bytes it ends with.
RECURSIVE PlainLoop(_, _, _)
PlainLoop(self, length, result) ==
  LET found == FoundRef(self)
      chunk == IF found = None THEN None ELSE BlobStore[found[1].blob_id]
      part  == IF Truthy(chunk)
                 THEN SliceFrom(chunk[1], self.offset - found[1].offset)
                 ELSE <<>>
  IN IF ~(Len(result) < length) \/ part = <<>>
       THEN [offset |-> self.offset, result |-> result]
       ELSE PlainLoop([self EXCEPT !.offset = @ + Min(length, Len(part))],
                      length, result \o part)

\* C17: the cache does not change what is observed: every Read returns the
\* bytes, and leaves the cursor, of a reader that reads the blob at every
\* lookup; and whenever a reference is cached, the chunk cached with it is
\* the blob store's value for the reference's blob id.
C17_CacheIsTransparent ==
  [][/\ (reader' # None /\ reader'[1].current_ref # None)
          => reader'[1].current_chunk
               = BlobStore[reader'[1].current_ref[1].blob_id]
     /\ (reader # None /\ call'.op = "Read" /\ ret'.err = "None")
          => LET plain == PlainLoop(reader[1], Effective(call'), <<>>)
             IN /\ ret'.value = SliceTo(plain.result, Effective(call'))
                /\ reader'[1].offset = plain.offset]_vars

\* A Read after a Seek back into the cached chunk has returned bytes without
\* reading a blob.
C17_Witness ==
  /\ call.op = "Read"
  /\ call.prev[1] = "Seek"
  /\ ret.err = "None"
  /\ ret.value # <<>>
  /\ reads = <<>>

----------------------------------------------------------------------------
(* Properties of the loop of Read (specification SpecLoop).                *)

\* C19: every Read returns, whatever the references, the cursor and the
\* length: a turn of its loop that runs the body either leaves the loop or
\* adds at least one byte to the result, the body runs at most length
\* times, and the loop is left in the end, with the result and the reader of
\* the Read taken as a whole.
C19_ReadTerminates ==
  /\ [][(procs # <<>> /\ procs[1].pc = "loop" /\ call'.op \in {"turn", "return"})
          => /\ Len(procs[1].result) < procs[1].length
                  => /\ procs[1].iters + 1 <= procs[1].length
                     /\ \/ procs'[1].pc = "idle"
                        \/ /\ Len(procs'[1].result) >= Len(procs[1].result) + 1
                           /\ procs'[1].iters = procs[1].iters + 1
             /\ procs'[1].pc = "idle"
                  => LET whole == ReadLoop(procs[1].start[1], procs[1].length,
                                           <<>>, <<>>)
                     IN /\ ret'.value = SliceTo(whole.result, procs[1].length)
                        /\ procs'[1].self = whole.self]_vars
  /\ (procs # <<>> /\ procs[1].pc = "loop") ~> (procs # <<>> /\ procs[1].pc = "idle")

\* A Read of two bytes or more has returned after its body ran as many times
\* as the bytes asked for.
C19_Witness ==
  /\ call.op = "return"
  /\ call.length >= 2
  /\ call.iters = call.length

----------------------------------------------------------------------------
(* Properties of two readers of one file (specification SpecTwo).          *)

\* C20: two readers over the same references, used by two callers whose
\* calls are interleaved turn by turn, do not affect each other: a step of
\* one leaves the cursor, the cache and the Read in progress of the other as
\* they were, and every Read returns the bytes, and leaves the cursor and
\* cache, of the same Read run alone from the state its reader was in.
C20_ReadersAreIndependent ==
  [][\A i \in {1, 2} :
       (procs # <<>> /\ call'.who = i) =>
          /\ \A j \in {1, 2} \ {i} : procs'[j] = procs[j]
          /\ call'.op = "return"
               => LET whole == ReadLoop(procs[i].start[1], procs[i].length,
                                        <<>>, <<>>)
                  IN /\ ret'.value = SliceTo(whole.result, procs[i].length)
                     /\ procs'[i].self = whole.self
          /\ call'.op = "Seek" => procs'[i].self.offset = 0]_vars

\* A Read of reader 1 has returned bytes after a turn of its loop, a turn of
\* the loop of reader 2 and a last turn of its own.
C20_Witness ==
  /\ call.op = "return"
  /\ call.who = 1
  /\ call.mixed
  /\ ret.value # <<>>
  /\ procs[2].self.offset # procs[1].self.offset

----------------------------------------------------------------------------
(* Properties of callers of AddFileWithUnknownHash that run at the same    *)
(* time (specification SpecConc).                                          *)

\* AddFileWithUnknownHash(blob_ids) run alone on an empty database.
Alone(blob_ids) == AddFileWithUnknownHash([h \in {} |-> <<>>], blob_ids)

\* C16: callers of AddFileWithUnknownHash whose batches and writes are
\* interleaved each return the hash id, or raise the error, of their call
\* run alone; a write puts the whole list of its caller under its hash id
\* and leaves every other hash id as it was; so every hash id the database
\* holds has the complete list of one of the callers that returned it, never
\* a mixture.
C16_ConcurrentCalls ==
  [][procs' # <<>> =>
       /\ \A i \in {1, 2} :
            /\ procs'[i].pc = "returned"
                 => procs'[i].value = Alone(procs'[i].blob_ids).value
            /\ procs'[i].pc = "raised"
                 => Alone(procs'[i].blob_ids).err = "BlobNotFound"
            /\ Alone(procs'[i].blob_ids).err = "BlobNotFound"
                 => procs'[i].pc \in {"batch", "raised"}
       /\ \A h \in DOMAIN meta' :
            \E i \in {1, 2} :
              /\ procs'[i].pc = "returned"
              /\ procs'[i].value = Some(h)
              /\ meta'[h] = Alone(procs'[i].blob_ids).db[h]
       /\ call'.op = "write"
            => LET mine == Alone(procs[call'.who].blob_ids)
               IN meta' = [h \in DOMAIN meta \cup {mine.value[1]} |->
                             IF h = mine.value[1] THEN mine.db[h] ELSE meta[h]]
       /\ call'.op # "write" => meta' = meta]_vars

\* Caller 2 has written, right after a step of caller 1 that had already
\* returned the same hash id for other blob ids, and the database holds the
\* list of caller 2 for it.
C16_Witness ==
  /\ call.op = "write"
  /\ call.who = 2
  /\ call.mixed
  /\ procs[1].pc = "returned"
  /\ procs[1].value = procs[2].value
  /\ procs[1].blob_ids # procs[2].blob_ids
  /\ Len(procs[2].blob_ids) > BLOBS_READ_BATCH_SIZE
  /\ Concat(procs[2].blob_ids) # <<>>
  /\ meta[procs[2].value[1]] = ExpectedRefs(procs[2].blob_ids)
  /\ meta[procs[2].value[1]] # ExpectedRefs(procs[1].blob_ids)

====
